---- MODULE Spec2Model ----
(***************************************************************************)
(* A model of the asynchronous request engine of src/src/aur/aur.cc:       *)
(* class Aur drives libcurl multi transfers and forked git children        *)
(* through one sd-event loop.                                              *)
(*                                                                         *)
(* The engine is single threaded, so every public call (Queue*Request,     *)
(* CancelAll, Wait's entry) and every iteration of Wait's loop (one        *)
(* sd_event_run, which dispatches at most one event handler) is one        *)
(* atomic action.  The handlers are written as operators that take the     *)
(* state as a record and return the state they leave, in the order of the  *)
(* statements of the code, so that nested calls (a callback that calls     *)
(* CancelAll, CheckFinished that calls FinishRequest) compose.             *)
(*                                                                         *)
(* libcurl and sd-event are the environment.  What they do that the code   *)
(* does not decide is drawn with \E by the actions: which transfers        *)
(* finish and how, which registration call fails, what a completion        *)
(* callback does, and what a use of a released object leads to.            *)
(***************************************************************************)
EXTENDS Integers, Sequences, FiniteSets

\* Bounds of the model.
MaxHandles == 2
MaxUrls == 2

\* One id per Response Handler the engine allocates; the transfer (CURL*)
\* or watch (sd_event_source*) paired with it carries the same id, and so
\* does the socket libcurl opens for the transfer.
Ids == 1..MaxHandles
\* The value of an uninitialised sd_event_source* that is no live watch.
Wild == 0
\* Descriptors fcntl(F_DUPFD_CLOEXEC, 3) can hand out.
Fds == 3..(2 + 2 * MaxHandles)

CURLE_OK == 0
CURLE_ABORTED_BY_CALLBACK == 42
EINVAL == 22

\* Strings are sequences of pieces; the empty string is the empty sequence.
Empty == << >>

DigitChar(d) == <<"0", "1", "2", "3", "4", "5", "6", "7", "8", "9">>[d + 1]

RECURSIVE Digits(_)
Digits(n) == IF n < 10 THEN <<DigitChar(n)>>
             ELSE Digits(n \div 10) \o <<DigitChar(n % 10)>>

\* std::to_string(int)
ToString(n) == IF n < 0 THEN <<"-">> \o Digits(0 - n) ELSE Digits(n)

\* Whether sub occurs in str as a contiguous piece.
Contains(str, sub) ==
  \E i \in 1..(Len(str) + 1) :
    /\ i + Len(sub) - 1 <= Len(str)
    /\ SubSeq(str, i, i + Len(sub) - 1) = sub

\* curl_easy_strerror: a non-empty text for every code.
StrError(res) == <<"curl_easy_strerror:">> \o ToString(res)

\* strerror
OsStrError(e) == <<"strerror:">> \o ToString(e)

\* What a transfer can end with: the transport result, the HTTP status, and
\* what libcurl wrote into the handler's error_buffer.
ErrBufText(h) == <<"error_buffer of ">> \o ToString(h)
IoOutcomes(h) ==
  { [result |-> 0, code |-> 200, errbuf |-> Empty],
    [result |-> 0, code |-> 404, errbuf |-> ErrBufText(h)],
    [result |-> 7, code |-> 0, errbuf |-> Empty] }
TimerOutcomes(h) ==
  { [result |-> 28, code |-> 0, errbuf |-> ErrBufText(h)] }
NoOutcome == [result |-> 0, code |-> 0, errbuf |-> Empty]

\* si_status of an exited child.
ExitStatuses == {0, 1, 127}
\* errno after a failed fork.
ForkErrnos == {11, 12}

\* What the caller's completion callback does: return 0, return a negative
\* value, or call CancelAll and return 0.
Behaviours == {"ok", "neg", "reenter"}

VARIABLES
  \* the engine's members
  active_requests_,  \* the Active Request Set
  active_io_,        \* socket -> io source (present, fd, events, enabled)
  translate_fds_,    \* duplicated fd -> socket (-1: no entry)
  timer_,            \* "null", or the timer source: "oneshot" | "off"
  event_,            \* sd_event: exit_requested, exit_code, finished
  \* the objects the engine allocates, per id
  kind,              \* "none" | "curl" | "child"
  reqOf,             \* the submitted request the handler belongs to
  handler,           \* "none" | "live" | "freed"
  calls,             \* times the callback was invoked
  deletes,           \* times the handler was deleted
  easy,              \* CURL*: "none" | "added" | "done" | "removed" | "cleaned"
  cleanups,          \* times curl_easy_cleanup was applied
  watch,             \* child source: "none" | "registered" | "released"
  fate,              \* "none" | "pending" | "completed" | "cancelled" | "lost"
  \* what the environment produced, per id
  outcome,           \* result, code and error_buffer of a finished transfer
  exitStatus,        \* si_status (-1: none)
  forkErrno,         \* errno of the failed fork (0: none)
  csock,             \* transfers libcurl holds an open socket for
  openFds,           \* duplicates the engine opened and has not closed
  \* what each callback received, per id
  cbStatus, cbError, cbInSet, cbWatch,
  \* the process and the caller
  crashed,           \* undefined behaviour ended the process
  nreq,              \* requests submitted so far
  lastCall,          \* the caller's last call: "none" | "queue" | "wait" |
                     \* "cancelall" | "idle cancelall" (CancelAll on an empty
                     \* set with no cancellation before it)
  waitPc,            \* "idle" | "loop" | "returned"
  waitResult,        \* what the Wait returned
  waitServiced,      \* the Wait ran sd_event_run
  waitBroke,         \* the Wait left its loop on a failed sd_event_run
  waitAfter,         \* the call right before the Wait: "cancelall" |
                     \* "idle cancelall" | "other"
  \* the clone requests, per id
  update,            \* a working copy existed when the clone was submitted
  operation_,        \* the label a CloneResponseHandler holds
  cmd,               \* the argument vector the forked child executes
  cbResponse,        \* the response the callback received
  \* the timer
  timerSources,      \* time sources added to the event loop
  timerUsec,         \* the deadline of the timer, from now (-1: none)
  \* history
  negReturned,       \* a callback has returned a negative value
  cbAfterNeg,        \* a callback ran after another had returned negative
  regFailed,         \* a reactor registration has failed
  caNonEmpty,        \* some CancelAll returned with a non-empty set
  cancelBad,         \* some Cancel did more than remove its member
  rmResidue,         \* a removal left the registration, its table entry
                     \* or its duplicate behind
  usedReleasedIo,    \* an io source was operated on after its release
  rmUnregChanged,    \* a removal for an unregistered socket changed the engine
  timerBad,          \* some TimerCallback left the timer in another state
                     \* than it was asked for
  sockFailChanged    \* a SocketCallback that failed had changed the engine

vars == << active_requests_, active_io_, translate_fds_, timer_, event_,
           kind, reqOf, handler, calls, deletes, easy, cleanups, watch,
           fate, outcome, exitStatus, forkErrno, csock, openFds, cbStatus,
           cbError, cbInSet, cbWatch, crashed, nreq, lastCall, waitPc,
           waitResult, waitServiced, waitBroke, waitAfter, negReturned,
           cbAfterNeg, regFailed, caNonEmpty, cancelBad, update, operation_,
           cmd, cbResponse, rmResidue, usedReleasedIo, rmUnregChanged,
           timerSources, timerUsec, timerBad, sockFailChanged >>

NoIo == [present |-> FALSE, fd |-> 0, events |-> {}, enabled |-> FALSE]

\* The state as a record, with the scratch fields of one action.
\*   ret     the value the last call returned
\*   fail    the registration call that fails in this action
\*           ("none", "dup", "addio", "setio", "timer")
\*   onUB    what undefined behaviour leads to: the process dies ("crash"),
\*           or goes on, a call that returns a value reporting success
\*           ("go") or an error ("err")
\*   honor   whether this libcurl turns a callback's -1 into an error of the
\*           call it made the callback from
\*   cbfail  a libcurl callback returned -1 during the current libcurl call
\*   tried   the registration calls made, ubHit whether undefined behaviour
\*           was met, cbfailed whether a libcurl callback returned -1: they
\*           tell which of fail, onUB and honor the action depends on
Cur(fail, onUB, honor) ==
  [ active |-> active_requests_, io |-> active_io_,
    translate |-> translate_fds_, timer |-> timer_, event |-> event_,
    kind |-> kind, reqOf |-> reqOf, handler |-> handler, calls |-> calls,
    deletes |-> deletes, easy |-> easy, cleanups |-> cleanups,
    watch |-> watch, fate |-> fate, outcome |-> outcome,
    exitStatus |-> exitStatus, forkErrno |-> forkErrno, csock |-> csock,
    openFds |-> openFds, cbStatus |-> cbStatus, cbError |-> cbError,
    cbInSet |-> cbInSet, cbWatch |-> cbWatch, crashed |-> crashed,
    nreq |-> nreq, lastCall |-> lastCall, waitPc |-> waitPc,
    waitResult |-> waitResult, waitServiced |-> waitServiced,
    waitBroke |-> waitBroke, waitAfter |-> waitAfter,
    negReturned |-> negReturned, cbAfterNeg |-> cbAfterNeg,
    regFailed |-> regFailed, caNonEmpty |-> caNonEmpty,
    cancelBad |-> cancelBad,
    update |-> update,
    operation_ |-> operation_,
    cmd |-> cmd,
    cbResponse |-> cbResponse,
    rmResidue |-> rmResidue,
    usedReleasedIo |-> usedReleasedIo,
    rmUnregChanged |-> rmUnregChanged,
    timerSources |-> timerSources,
    timerUsec |-> timerUsec,
    timerBad |-> timerBad,
    sockFailChanged |-> sockFailChanged,
    ret |-> 0, fail |-> fail, onUB |-> onUB, honor |-> honor,
    cbfail |-> FALSE, tried |-> {}, ubHit |-> FALSE, cbfailed |-> FALSE ]

\* The state an action leaves.  A process that died leaves nothing behind
\* but the fact.
Commit(s) ==
  IF s.crashed
  THEN /\ crashed' = TRUE
       /\ UNCHANGED << active_requests_, active_io_, translate_fds_, timer_,
                       event_, kind, reqOf, handler, calls, deletes, easy,
                       cleanups, watch, fate, outcome, exitStatus, forkErrno,
                       csock, openFds, cbStatus, cbError, cbInSet, cbWatch,
                       nreq, lastCall, waitPc, waitResult, waitServiced,
                       waitBroke, waitAfter, negReturned,
                       cbAfterNeg, regFailed, caNonEmpty,
                       cancelBad,
                       update,
                       operation_,
                       cmd,
                       cbResponse,
                       rmResidue,
                       usedReleasedIo,
                       rmUnregChanged,
                       timerSources,
                       timerUsec,
                       timerBad,
                       sockFailChanged >>
  ELSE
  /\ active_requests_' = s.active
  /\ active_io_' = s.io
  /\ translate_fds_' = s.translate
  /\ timer_' = s.timer
  /\ event_' = s.event
  /\ kind' = s.kind
  /\ reqOf' = s.reqOf
  /\ handler' = s.handler
  /\ calls' = s.calls
  /\ deletes' = s.deletes
  /\ easy' = s.easy
  /\ cleanups' = s.cleanups
  /\ watch' = s.watch
  /\ fate' = s.fate
  /\ outcome' = s.outcome
  /\ exitStatus' = s.exitStatus
  /\ forkErrno' = s.forkErrno
  /\ csock' = s.csock
  /\ openFds' = s.openFds
  /\ cbStatus' = s.cbStatus
  /\ cbError' = s.cbError
  /\ cbInSet' = s.cbInSet
  /\ cbWatch' = s.cbWatch
  /\ crashed' = FALSE
  /\ nreq' = s.nreq
  /\ lastCall' = s.lastCall
  /\ waitPc' = s.waitPc
  /\ waitResult' = s.waitResult
  /\ waitServiced' = s.waitServiced
  /\ waitBroke' = s.waitBroke
  /\ waitAfter' = s.waitAfter
  /\ negReturned' = s.negReturned
  /\ cbAfterNeg' = s.cbAfterNeg
  /\ regFailed' = s.regFailed
  /\ caNonEmpty' = s.caNonEmpty
  /\ cancelBad' = s.cancelBad
  /\ update' = s.update
  /\ operation_' = s.operation_
  /\ cmd' = s.cmd
  /\ cbResponse' = s.cbResponse
  /\ rmResidue' = s.rmResidue
  /\ usedReleasedIo' = s.usedReleasedIo
  /\ rmUnregChanged' = s.rmUnregChanged
  /\ timerSources' = s.timerSources
  /\ timerUsec' = s.timerUsec
  /\ timerBad' = s.timerBad
  /\ sockFailChanged' = s.sockFailChanged

\* The registration calls that can fail, and what undefined behaviour can
\* lead to.
Calls == {"none", "timer", "setio", "dup", "addio"}
UBs == {"go", "err", "crash"}

\* The successors of an action whose outcome go[fail, onUB, honor] depends
\* on the environment.  A run is the same for every value of a choice it
\* never comes to: a registration call that is not made cannot fail, and the
\* runs that stop early (honor) or die (onUB) are prefixes of the one that
\* goes on.  So one successor for each choice the run depends on.
Branch(go) ==
  \E fail \in {"none"} \cup go["none", "go", FALSE].tried :
    \E onUB \in (IF go[fail, "go", FALSE].ubHit THEN UBs ELSE {"go"}) :
      \E honor \in (IF go[fail, onUB, FALSE].cbfailed THEN BOOLEAN
                    ELSE {FALSE}) :
        Commit(go[fail, onUB, honor])

Init ==
  /\ active_requests_ = {}
  /\ active_io_ = [s \in Ids |-> NoIo]
  /\ translate_fds_ = [f \in Fds |-> -1]
  /\ timer_ = "null"
  /\ event_ = [exit_requested |-> FALSE, exit_code |-> 0, finished |-> FALSE]
  /\ kind = [h \in Ids |-> "none"]
  /\ reqOf = [h \in Ids |-> 0]
  /\ handler = [h \in Ids |-> "none"]
  /\ calls = [h \in Ids |-> 0]
  /\ deletes = [h \in Ids |-> 0]
  /\ easy = [h \in Ids |-> "none"]
  /\ cleanups = [h \in Ids |-> 0]
  /\ watch = [h \in Ids |-> "none"]
  /\ fate = [h \in Ids |-> "none"]
  /\ outcome = [h \in Ids |-> NoOutcome]
  /\ exitStatus = [h \in Ids |-> -1]
  /\ forkErrno = [h \in Ids |-> 0]
  /\ csock = {}
  /\ openFds = {}
  /\ cbStatus = [h \in Ids |-> 0]
  /\ cbError = [h \in Ids |-> Empty]
  /\ cbInSet = [h \in Ids |-> FALSE]
  /\ cbWatch = [h \in Ids |-> "none"]
  /\ crashed = FALSE
  /\ nreq = 0
  /\ lastCall = "none"
  /\ waitPc = "idle"
  /\ waitResult = 0
  /\ waitServiced = FALSE
  /\ waitBroke = FALSE
  /\ waitAfter = "other"
  /\ negReturned = FALSE
  /\ cbAfterNeg = FALSE
  /\ regFailed = FALSE
  /\ caNonEmpty = FALSE
  /\ cancelBad = FALSE
  /\ update = [h \in Ids |-> FALSE]
  /\ operation_ = [h \in Ids |-> ""]
  /\ cmd = [h \in Ids |-> << >>]
  /\ cbResponse = [h \in Ids |-> ""]
  /\ rmResidue = FALSE
  /\ usedReleasedIo = FALSE
  /\ rmUnregChanged = FALSE
  /\ timerSources = 0
  /\ timerUsec = -1
  /\ timerBad = FALSE
  /\ sockFailChanged = FALSE

(***************************************************************************)
(* Undefined behaviour: the process either dies there or goes on.          *)
(***************************************************************************)
Undefined(s) ==
  IF s.onUB = "crash" THEN [s EXCEPT !.crashed = TRUE, !.ubHit = TRUE]
  ELSE [s EXCEPT !.ubHit = TRUE]

\* A libcurl callback returns -1.
CallbackFails(s) == [s EXCEPT !.cbfail = TRUE, !.cbfailed = TRUE]

\* A reactor registration call is made: it fails, and the callback returns
\* -1, or succeeds and the engine goes on to next.
Register(s, call, next) ==
  IF s.fail = call
  THEN CallbackFails([s EXCEPT !.regFailed = TRUE, !.tried = @ \cup {call}])
  ELSE [next EXCEPT !.tried = @ \cup {call}]

Returns(s, r) == IF s.crashed THEN s ELSE [s EXCEPT !.ret = r]

(***************************************************************************)
(* Aur::TimerCallback, CURLMOPT_TIMERFUNCTION.                              *)
(***************************************************************************)
\* steady_clock::now() + milliseconds(timeout_ms), in microseconds from now.
Usec(timeout_ms) == timeout_ms * 1000

\* What a TimerCallback that returns 0 may leave, from the state pre it is
\* called in to the state post it returns in.
TimerFrame(pre, post, timeout_ms) ==
  /\ post.timerSources <= 1
  /\ timeout_ms < 0 =>
       /\ post.timer = IF pre.timer = "null" THEN "null" ELSE "off"
       /\ post.timerSources = pre.timerSources
  /\ timeout_ms >= 0 =>
       /\ post.timer = "oneshot"
       /\ post.timerUsec = timeout_ms * 1000
       /\ post.timerSources = 1

\* return 0
TimerReturns(pre, post, timeout_ms) ==
  [post EXCEPT !.timerBad = @ \/ ~TimerFrame(pre, post, timeout_ms)]

\* sd_event_add_time: a new time source, enabled SD_EVENT_ONESHOT.
AddTime(s, usec) ==
  [s EXCEPT !.timer = "oneshot", !.timerUsec = usec,
            !.timerSources = IF @ < 2 THEN @ + 1 ELSE @]

\* sd_event_source_set_time, sd_event_source_set_enabled(SD_EVENT_ONESHOT)
SetTime(s, usec) == [s EXCEPT !.timer = "oneshot", !.timerUsec = usec]

\* A variant of TimerCallback that adds a time source whenever it is asked
\* for a timeout.
TimerCallbackAlwaysAdds(s, timeout_ms) ==
  IF s.crashed THEN s
  ELSE IF timeout_ms < 0
  THEN IF s.timer # "null"
       THEN Register(s, "timer",
                     TimerReturns(s, [s EXCEPT !.timer = "off"], timeout_ms))
       ELSE TimerReturns(s, s, timeout_ms)
  ELSE Register(s, "timer",
                TimerReturns(s, AddTime(s, Usec(timeout_ms)), timeout_ms))

TimerCallback(s, timeout_ms) ==
  IF s.crashed THEN s
  ELSE IF timeout_ms < 0
  THEN IF s.timer # "null"
       THEN \* sd_event_source_set_enabled(timer_, SD_EVENT_OFF)
            Register(s, "timer",
                     TimerReturns(s, [s EXCEPT !.timer = "off"], timeout_ms))
       ELSE TimerReturns(s, s, timeout_ms)
  ELSE IF s.timer # "null"
       THEN Register(s, "timer",
                     TimerReturns(s, SetTime(s, Usec(timeout_ms)), timeout_ms))
       ELSE Register(s, "timer",
                     TimerReturns(s, AddTime(s, Usec(timeout_ms)), timeout_ms))

(***************************************************************************)
(* Aur::SocketCallback, CURLMOPT_SOCKETFUNCTION.                            *)
(***************************************************************************)
ActionToRevents(action) ==
  CASE action = "IN" -> {"EPOLLIN"}
    [] action = "OUT" -> {"EPOLLOUT"}
    [] action = "INOUT" -> {"EPOLLIN", "EPOLLOUT"}
    [] OTHER -> {}

\* fcntl(s, F_DUPFD_CLOEXEC, 3): the lowest free descriptor.
FreeFds(s) == Fds \ s.openFds
LowestFreeFd(s) == CHOOSE f \in FreeFds(s) : \A g \in FreeFds(s) : f <= g

\* A variant of the CURL_POLL_REMOVE block that leaves the entry of the
\* Translate-FD Table in place.
ReleaseIoKeepsEntry(s, sk) ==
  [s EXCEPT !.io[sk] = NoIo, !.openFds = @ \ {s.io[sk].fd}]

\* The CURL_POLL_REMOVE block for a registered socket: the source is
\* disabled and released, both map entries erased, the duplicate closed.
ReleaseIo(s, sk) ==
  [s EXCEPT !.io[sk] = NoIo,
            !.translate[s.io[sk].fd] = -1,
            !.openFds = @ \ {s.io[sk].fd}]

\* if (io != nullptr) after the CURL_POLL_REMOVE block, whose local io still
\* holds the released source: sd_event_source_set_io_events and
\* sd_event_source_set_enabled are applied to it.
UseReleasedIo(s) ==
  IF s.onUB = "err"
  THEN CallbackFails(Undefined([s EXCEPT !.usedReleasedIo = TRUE]))
  ELSE Undefined([s EXCEPT !.usedReleasedIo = TRUE])

\* SocketCallback returns from a CURL_POLL_REMOVE for a registered socket,
\* called in state pre.
RemoveReturns(pre, post, sk) ==
  IF post.crashed THEN post
  ELSE [post EXCEPT !.rmResidue = @ \/ post.io[sk].present
                                    \/ post.translate[pre.io[sk].fd] # -1
                                    \/ pre.io[sk].fd \in post.openFds]

\* if (io != nullptr) for a registered source
SetIoEvents(s, sk, action) ==
  Register(s, "setio", [s EXCEPT !.io[sk].events = ActionToRevents(action),
                                 !.io[sk].enabled = TRUE])

\* sd_event_add_io on the duplicate fd, and the two emplaces
AddIo(s, sk, fd, action) ==
  Register(s, "addio",
           [s EXCEPT !.io[sk] = [present |-> TRUE, fd |-> fd,
                                 events |-> ActionToRevents(action),
                                 enabled |-> TRUE],
                     !.translate[fd] = sk])

\* else: the socket has no registration, whatever the action is
DupAndAddIo(s, sk, action) ==
  IF FreeFds(s) = {} THEN CallbackFails([s EXCEPT !.regFailed = TRUE])
  ELSE Register(s, "dup",
                AddIo([s EXCEPT !.openFds = @ \cup {LowestFreeFd(s)}], sk,
                      LowestFreeFd(s), action))

\* SocketCallback returns from a CURL_POLL_REMOVE for a socket without a
\* registration, called in state pre.
RemoveUnregisteredReturns(pre, post) ==
  IF post.crashed THEN post
  ELSE [post EXCEPT !.rmUnregChanged = @ \/ post.io # pre.io
                                         \/ post.translate # pre.translate
                                         \/ post.openFds # pre.openFds]

\* The body of SocketCallback, entered with cbfail unset.
SocketCallbackBody(s, sk, action) ==
  IF s.io[sk].present
  THEN IF action = "REMOVE"
       THEN RemoveReturns(s, UseReleasedIo(ReleaseIo(s, sk)), sk)
       ELSE SetIoEvents(s, sk, action)
  ELSE IF action = "REMOVE"
  THEN RemoveUnregisteredReturns(s, DupAndAddIo(s, sk, action))
  ELSE DupAndAddIo(s, sk, action)

\* SocketCallback returns, called in state pre: with -1 when post.cbfail.
SocketCallbackReturns(pre, post) ==
  IF post.crashed THEN post
  ELSE [post EXCEPT !.cbfail = @ \/ pre.cbfail,
                    !.sockFailChanged = @ \/ (/\ post.cbfail
                                              /\ \/ post.io # pre.io
                                                 \/ post.translate # pre.translate
                                                 \/ post.openFds # pre.openFds)]

SocketCallback(s, sk, action) ==
  IF s.crashed THEN s
  ELSE SocketCallbackReturns(
         s, SocketCallbackBody([s EXCEPT !.cbfail = FALSE], sk, action))

(***************************************************************************)
(* libcurl, as far as the engine sees it.                                  *)
(***************************************************************************)
\* Transfers the multi handle holds that have not finished.
InFlight(s) == {h \in Ids : s.easy[h] = "added"}

\* libcurl tells the engine its next timeout after it changed its set of
\* transfers: none (-1) when no transfer is in flight.
UpdateTimer(s) ==
  TimerCallback(s, IF InFlight(s) = {} THEN -1 ELSE 5)

\* curl_multi_add_handle: the transfer is in the multi handle and libcurl
\* asks for an immediate timeout.
CurlMultiAddHandle(s, h) ==
  IF s.crashed THEN s
  ELSE TimerCallback([s EXCEPT !.easy[h] = "added"], 0)

\* libcurl drops the socket of transfer h, closing it first.
DropSocket(s, h) ==
  IF s.crashed \/ h \notin s.csock THEN s
  ELSE SocketCallback([s EXCEPT !.csock = @ \ {h}], h, "REMOVE")

\* curl_multi_remove_handle
CurlMultiRemoveHandle(s, h) ==
  IF s.crashed THEN s
  ELSE IF s.easy[h] \notin {"added", "done"}
  THEN Undefined(s)   \* the handle was cleaned up already
  ELSE UpdateTimer(DropSocket([s EXCEPT !.easy[h] = "removed"], h))

\* curl_easy_cleanup
CurlEasyCleanup(s, h) ==
  IF s.crashed THEN s
  ELSE IF s.easy[h] = "cleaned"
  THEN Undefined([s EXCEPT !.cleanups[h] = 2])
  ELSE [s EXCEPT !.easy[h] = "cleaned", !.cleanups[h] = @ + 1]

\* sd_event_source_unref of a child source
SourceUnref(s, src) ==
  IF s.crashed THEN s
  ELSE IF src = Wild THEN Undefined(s)
  ELSE IF s.watch[src] # "registered" THEN Undefined(s)
  ELSE [s EXCEPT !.watch[src] = "released"]

\* A variant of sd_event_exit that records no exit request.
SdEventExitDropped(s, code) == s

\* sd_event_exit(event_, code)
SdEventExit(s, code) ==
  IF s.crashed \/ s.event.finished THEN s
  ELSE [s EXCEPT !.event.exit_requested = TRUE, !.event.exit_code = code]

(***************************************************************************)
(* The Response Handler and the paths that end a request.                  *)
(***************************************************************************)
\* delete handler
DeleteHandler(s, h) ==
  IF s.crashed THEN s
  ELSE IF s.handler[h] # "live"
  THEN Undefined([s EXCEPT !.deletes[h] = 2])
  ELSE [s EXCEPT !.handler[h] = "freed", !.deletes[h] = @ + 1]

\* active_requests_.erase
Erase(s, request) ==
  IF s.crashed THEN s ELSE [s EXCEPT !.active = @ \ {request}]

\* Aur::FinishRequest(sd_event_source*)
FinishRequestSource(s, src) ==
  Returns(SourceUnref(Erase(s, src), src), 0)

\* Aur::FinishRequest(CURL*, CURLcode, bool), Aur::Cancel, Aur::CancelAll and
\* ResponseHandler::RunCallback call each other: a callback may call CancelAll.
RECURSIVE FinishRequest(_, _, _, _, _)

\* The member leaves by cancellation.
Cancelled(s, request) ==
  IF request \in Ids /\ s.fate[request] = "pending"
  THEN [s EXCEPT !.fate[request] = "cancelled"]
  ELSE s

\* A variant of the visitor that dispatches the callback of a transfer.
VisitorDispatching(s, request) ==
  IF request \in Ids /\ s.kind[request] = "curl"
  THEN FinishRequest(Cancelled(s, request), request,
                     CURLE_ABORTED_BY_CALLBACK, TRUE, "ok")
  ELSE FinishRequestSource(Cancelled(s, request), request)

\* The Visitor of Aur::Cancel over the two kinds of member.
Visitor(s, request) ==
  IF request \in Ids /\ s.kind[request] = "curl"
  THEN FinishRequest(Cancelled(s, request), request,
                     CURLE_ABORTED_BY_CALLBACK, FALSE, "ok")
  ELSE FinishRequestSource(Cancelled(s, request), request)

\* What one Cancel may do, from the state pre it is called in to the state
\* post it returns in: the member leaves the set and nothing else does, no
\* callback runs, and what belongs to the other handlers stays as it was; a
\* transfer is out of the multi handle, cleaned up and without its handler,
\* a watch is released and its child has no exit status it had not before.
CancelFrame(pre, post, request) ==
  /\ post.active = pre.active \ {request}
  /\ post.calls = pre.calls
  /\ \A h \in Ids \ {request} :
       /\ post.handler[h] = pre.handler[h]
       /\ post.deletes[h] = pre.deletes[h]
       /\ post.easy[h] = pre.easy[h]
       /\ post.watch[h] = pre.watch[h]
       /\ post.fate[h] = pre.fate[h]
       /\ post.io[h] = pre.io[h]
  /\ post.exitStatus = pre.exitStatus
  /\ (request \in Ids /\ pre.kind[request] = "curl") =>
       /\ post.easy[request] = "cleaned"
       /\ post.handler[request] = "freed"
       /\ post.watch[request] = pre.watch[request]
  /\ (request \in Ids /\ pre.kind[request] = "child") =>
       /\ post.watch[request] = "released"
       /\ post.handler[request] = pre.handler[request]
       /\ post.easy[request] = pre.easy[request]

\* Cancel returns.
CancelReturns(pre, post, request) ==
  IF post.crashed THEN post
  ELSE [post EXCEPT !.cancelBad = @ \/ ~CancelFrame(pre, post, request)]

\* Aur::Cancel
Cancel(s, request) == CancelReturns(s, Visitor(s, request), request)

\* while (!active_requests_.empty()) Cancel(*active_requests_.begin());
RECURSIVE CancelLoop(_)
CancelLoop(s) ==
  IF s.crashed \/ s.active = {} THEN s
  ELSE CancelLoop(Cancel(s, CHOOSE m \in s.active : TRUE))

\* CancelAll returns: whether it leaves a member behind.
CancelAllReturns(s) ==
  IF s.crashed THEN s ELSE [s EXCEPT !.caNonEmpty = @ \/ (s.active # {})]

\* A variant of CancelAll that cancels one member instead of looping.
CancelAllOnce(s) ==
  CancelAllReturns(SdEventExit(
    IF s.crashed \/ s.active = {} THEN s
    ELSE Cancel(s, CHOOSE m \in s.active : TRUE), 1))

\* Aur::CancelAll
CancelAll(s) == CancelAllReturns(SdEventExit(CancelLoop(s), 1))

\* MakeResponse: a CloneResponse of the handler's label, which is moved out
\* of the handler; a response of the body otherwise.
MakeResponse(s, h) == IF s.kind[h] = "child" THEN s.operation_[h] ELSE "body"

\* Run: the caller's callback is invoked with (response, status, error).
Invoke(s, h, status, error) ==
  [s EXCEPT !.calls[h] = @ + 1,
            !.cbResponse[h] = MakeResponse(s, h),
            !.operation_[h] = "",
            !.cbStatus[h] = status,
            !.cbError[h] = error,
            !.cbInSet[h] = (h \in s.active),
            !.cbWatch[h] = s.watch[h],
            !.cbAfterNeg = @ \/ s.negReturned,
            !.fate[h] = IF @ = "pending" THEN "completed" ELSE @]

\* The callback runs as beh says and returns.
CallbackReturns(s, beh) ==
  IF s.crashed THEN s
  ELSE IF beh = "neg" THEN [s EXCEPT !.ret = -1, !.negReturned = TRUE]
  ELSE [s EXCEPT !.ret = 0]

CallbackRuns(s, beh) ==
  CallbackReturns(IF beh = "reenter" THEN CancelAll(s) ELSE s, beh)

\* ResponseHandler::RunCallback: int r = Run(status, error); delete this;
\* return r;
RunCallback(s, h, status, error, beh) ==
  IF s.crashed THEN s
  ELSE IF s.handler[h] # "live" THEN Undefined(s)
  ELSE DeleteHandler(CallbackRuns(Invoke(s, h, status, error), beh), h)

\* A variant of ErrorOf that takes an HTTP error status for a failure.
ErrorOfStatus(s, h, result) ==
  IF result # CURLE_OK \/ s.outcome[h].code >= 400
  THEN IF s.outcome[h].errbuf # Empty THEN s.outcome[h].errbuf
       ELSE StrError(result)
  ELSE Empty

\* The error FinishRequest passes to the callback.
ErrorOf(s, h, result) ==
  IF result # CURLE_OK
  THEN IF s.outcome[h].errbuf # Empty THEN s.outcome[h].errbuf
       ELSE StrError(result)
  ELSE Empty

FinishRequest(s, h, result, dispatch_callback, beh) ==
  IF s.crashed THEN s
  ELSE CurlEasyCleanup(
         CurlMultiRemoveHandle(
           Erase(IF dispatch_callback
                 THEN RunCallback(s, h, s.outcome[h].code,
                                  ErrorOf(s, h, result), beh)
                 ELSE Returns(DeleteHandler(s, h), 0),
                 h),
           h),
         h)

(***************************************************************************)
(* curl_multi_socket_action: what libcurl does when the engine hands it    *)
(* a timeout or socket activity.  A callback's -1 ends the call with an    *)
(* error when this libcurl honours it (s.honor).                           *)
(***************************************************************************)
Stopped(s) == s.crashed \/ (s.honor /\ s.cbfail)

Lowest(S) == CHOOSE h \in S : \A g \in S : h <= g

\* libcurl opens a socket for every transfer that has none and announces it.
RECURSIVE ConnectAll(_)
ConnectAll(s) ==
  IF Stopped(s) \/ InFlight(s) \ s.csock = {} THEN s
  ELSE ConnectAll(SocketCallback(
                    [s EXCEPT !.csock = @ \cup {Lowest(InFlight(s) \ s.csock)}],
                    Lowest(InFlight(s) \ s.csock), "OUT"))

\* Transfer h finishes with outcome oc: CURLMSG_DONE is queued for it and
\* its socket dropped.
Complete(s, h, oc) ==
  IF Stopped(s) THEN s
  ELSE DropSocket([s EXCEPT !.easy[h] = "done", !.outcome[h] = oc], h)

RECURSIVE CompleteAll(_, _)
CompleteAll(s, D) ==
  IF DOMAIN D = {} THEN s
  ELSE CompleteAll(Complete(s, Lowest(DOMAIN D), D[Lowest(DOMAIN D)]),
                   [g \in DOMAIN D \ {Lowest(DOMAIN D)} |-> D[g]])

\* The call starts, and ends with CURLM_OK (0) or an error.
CurlBegins(s) == [s EXCEPT !.cbfail = FALSE]
CurlResult(s) == Returns(s, IF s.honor /\ s.cbfail THEN 1 ELSE 0)
CurlTimeout(s) == IF Stopped(s) THEN s ELSE UpdateTimer(s)

\* curl_multi_socket_action(multi, CURL_SOCKET_TIMEOUT, 0, ...): transfers
\* connect, and those of D run into their timeout.
SocketActionTimeout(s, D) ==
  CurlResult(CurlTimeout(CompleteAll(ConnectAll(CurlBegins(s)), D)))

\* The transfer on socket sk moves on (libcurl changes the socket's
\* interest) or finishes with outcome oc.
Progress == NoOutcome
Transfer(s, sk, oc) ==
  IF sk \notin Ids \/ sk \notin s.csock \/ s.easy[sk] # "added" THEN s
  ELSE IF oc = Progress THEN SocketCallback(s, sk, "IN")
  ELSE Complete(s, sk, oc)

\* curl_multi_socket_action(multi, sk, action, ...)
SocketActionSocket(s, sk, oc) ==
  CurlResult(CurlTimeout(Transfer(CurlBegins(s), sk, oc)))

(***************************************************************************)
(* The event handlers.                                                     *)
(***************************************************************************)
\* The orders curl_multi_info_read can deliver the messages of S in.
Orders(S) ==
  {q \in [1..Cardinality(S) -> S] : \A i, j \in DOMAIN q : i # j => q[i] # q[j]}

\* Aur::CheckFinished: order is the queue curl_multi_info_read reads from,
\* beh what each callback does.
RECURSIVE CheckFinished(_, _, _)

\* if (r < 0) { CancelAll(); return r; }
AfterFinishRequest(s, order, beh) ==
  IF s.crashed THEN s
  ELSE IF s.ret < 0 THEN Returns(CancelAll(s), s.ret)
  ELSE CheckFinished(s, order, beh)

CheckFinished(s, order, beh) ==
  IF s.crashed THEN s
  ELSE IF order = << >> THEN Returns(s, 0)
  ELSE IF s.easy[Head(order)] # "done"
  THEN \* no message for it in the queue
       CheckFinished(s, Tail(order), beh)
  ELSE AfterFinishRequest(
         FinishRequest(s, Head(order), s.outcome[Head(order)].result, TRUE,
                       beh[Head(order)]),
         Tail(order), beh)

\* Aur::OnCurlIO and Aur::OnCurlTimer after curl_multi_socket_action: s is
\* the state the call left.
AfterSocketAction(s, order, beh) ==
  IF s.crashed THEN s
  ELSE IF s.ret # 0 THEN Returns(s, 0 - EINVAL)
  ELSE CheckFinished(s, order, beh)

\* std::unordered_map::operator[]: a missing key is inserted with value 0.
TranslateFd(s, fd) ==
  IF s.translate[fd] = -1 THEN [s EXCEPT !.translate[fd] = 0] ELSE s

\* Aur::OnCurlIO up to the end of curl_multi_socket_action
OnCurlIO(s, fd, oc) ==
  SocketActionSocket(TranslateFd(s, fd), TranslateFd(s, fd).translate[fd], oc)

\* The error OnCloneExit passes to the callback.
CloneError(si_status) ==
  IF si_status # 0
  THEN <<"git exited with unexpected exit status ">> \o ToString(si_status)
  ELSE Empty

\* A variant of OnCloneExit that runs the callback before it releases the
\* watch.
OnCloneExitCallbackFirst(s, h, si_status, beh) ==
  FinishRequestSource(
    RunCallback(s, h, si_status, CloneError(si_status), beh), h)

\* Aur::OnCloneExit
OnCloneExit(s, h, si_status, beh) ==
  RunCallback(FinishRequestSource(s, h), h, si_status, CloneError(si_status),
              beh)

(***************************************************************************)
(* Submission.                                                             *)
(***************************************************************************)
Unused(s) == {h \in Ids : s.kind[h] = "none"}

\* active_requests_.emplace
Emplace(s, request) ==
  IF s.crashed THEN s ELSE [s EXCEPT !.active = @ \cup {request}]

\* new ResponseHandlerType(this, callback)
NewHandler(s, h, k) ==
  [s EXCEPT !.kind[h] = k, !.reqOf[h] = s.nreq, !.handler[h] = "live",
            !.fate[h] = "pending"]

\* One pass of the loop of Aur::QueueHttpRequest: a transfer and its
\* Response Handler for one URL of the request.
QueueTransfer(s, h) ==
  Emplace(CurlMultiAddHandle(NewHandler(s, h, "curl"), h), h)

RECURSIVE QueueUrls(_, _)
QueueUrls(s, n) ==
  IF n = 0 \/ s.crashed THEN s
  ELSE QueueUrls(QueueTransfer(s, Lowest(Unused(s))), n - 1)

\* Aur::QueueHttpRequest for a request whose Build yields nurls URLs.
QueueHttpRequest(s, nurls) ==
  QueueUrls([s EXCEPT !.nreq = @ + 1], nurls)

\* A variant of Cmd that always clones.
CmdAlwaysClone(upd) == <<"git", "clone", "--quiet", "url">>

\* The argument vector of the child: cmd{"git"} and what is inserted.
Cmd(upd) ==
  IF upd THEN <<"git", "-C", "reponame", "pull", "--quiet", "--ff-only">>
  ELSE <<"git", "clone", "--quiet", "url">>

\* update ? "update" : "clone"
Operation(upd) == IF upd THEN "update" ELSE "clone"

\* const bool update = fs::exists(...); new CloneResponseHandler(this,
\* callback, update ? "update" : "clone")
NewCloneHandler(s, h, upd) ==
  [NewHandler([s EXCEPT !.nreq = @ + 1], h, "child")
     EXCEPT !.update[h] = upd, !.operation_[h] = Operation(upd)]

\* fork returned a pid: the child executes git with its argument vector.
Forked(s, h, upd) == [s EXCEPT !.cmd[h] = Cmd(upd)]

\* A variant of the fork-failure branch that tells nobody and goes on to
\* watch a child.
ForkFailedWatches(s, h, e, beh) ==
  Emplace([s EXCEPT !.forkErrno[h] = e, !.watch[h] = "registered"], h)

\* The fork failed: the callback is told, and its return value dropped.
ForkFailed(s, h, e, beh) ==
  RunCallback([s EXCEPT !.forkErrno[h] = e], h, 0 - e,
              <<"failed to fork new process for git: ">> \o OsStrError(e),
              beh)

\* sd_event_add_child; active_requests_.emplace(child).  When the
\* registration fails nothing was stored in the local variable child.
AddChild(s, h, added, child) ==
  IF added
  THEN Emplace([s EXCEPT !.watch[h] = "registered"], h)
  ELSE Emplace([s EXCEPT !.regFailed = TRUE, !.fate[h] = "lost"], child)

\* Aur::QueueCloneRequest.  upd is whether the working copy exists; forked
\* is 0 when fork returned a pid and the errno of the failed fork otherwise;
\* added is whether sd_event_add_child succeeded; child is what the local
\* variable child holds when it did not.
QueueCloneRequest(s, h, upd, forked, added, child, beh) ==
  IF forked # 0
  THEN ForkFailed(NewCloneHandler(s, h, upd), h, forked, beh)
  ELSE AddChild(Forked(NewCloneHandler(s, h, upd), h, upd), h, added, child)

(***************************************************************************)
(* Aur::Wait.                                                              *)
(***************************************************************************)
\* sd_event_get_exit_code and return -r
WaitReturn(s) ==
  [s EXCEPT !.waitPc = "returned",
            !.waitResult = IF s.event.exit_requested
                           THEN 0 - s.event.exit_code ELSE 0]

\* while (!active_requests_.empty())
WaitLoop(s) ==
  IF s.crashed THEN s
  ELSE IF s.active = {} THEN WaitReturn(s)
  ELSE [s EXCEPT !.waitPc = "loop"]

\* if (sd_event_run(event_, 0) < 0) break;
WaitBreak(s) == WaitReturn([s EXCEPT !.waitBroke = TRUE])

\* sd_event_run is entered
Serviced(s) == [s EXCEPT !.waitServiced = TRUE]

\* After a handler returned a negative value sd-event disables its source.
DisableIo(s, sk) ==
  IF ~s.crashed /\ s.ret < 0 /\ s.io[sk].present
  THEN [s EXCEPT !.io[sk].enabled = FALSE] ELSE s

DisableTimer(s) ==
  IF ~s.crashed /\ s.ret < 0 /\ s.timer # "null"
  THEN [s EXCEPT !.timer = "off"] ELSE s

(***************************************************************************)
(* The actions.  The caller's calls are enabled while no Wait is running.  *)
(***************************************************************************)
CallerRuns == ~crashed /\ waitPc # "loop"
LoopRuns == ~crashed /\ waitPc = "loop"
Dispatching == LoopRuns /\ ~event_.exit_requested /\ ~event_.finished

\* A call of the caller: what the last Wait left is no longer observed.
Top(fail, onUB, op) ==
  [Cur(fail, onUB, FALSE) EXCEPT !.waitPc = "idle", !.lastCall = op,
                                 !.waitResult = 0, !.waitServiced = FALSE,
                                 !.waitBroke = FALSE,
                                 !.waitAfter = "other"]

FreeIds == {h \in Ids : kind[h] = "none"}
DoneIds == {h \in Ids : easy[h] = "done"}

QueueRpcRequest ==
  /\ CallerRuns
  /\ \E nurls \in 1..MaxUrls :
       /\ Cardinality(FreeIds) >= nurls
       /\ LET Go == [fail \in Calls, onUB \in UBs, honor \in BOOLEAN |->
                QueueHttpRequest(Top(fail, onUB, "queue"), nurls)]
          IN Branch(Go)

QueueRawRequest ==
  /\ CallerRuns
  /\ \E nurls \in 1..MaxUrls :
       /\ Cardinality(FreeIds) >= nurls
       /\ LET Go == [fail \in Calls, onUB \in UBs, honor \in BOOLEAN |->
                QueueHttpRequest(Top(fail, onUB, "queue"), nurls)]
          IN Branch(Go)

QueueTarballRequest ==
  /\ CallerRuns
  /\ \E nurls \in 1..MaxUrls :
       /\ Cardinality(FreeIds) >= nurls
       /\ LET Go == [fail \in Calls, onUB \in UBs, honor \in BOOLEAN |->
                QueueHttpRequest(Top(fail, onUB, "queue"), nurls)]
          IN Branch(Go)

\* The working copy exists or not.  fork fails; or it succeeds and
\* sd_event_add_child succeeds; or
\* sd_event_add_child fails, and child holds what the stack held: no source
\* of the engine, or one of its live sources.
QueueClone ==
  /\ CallerRuns
  /\ FreeIds # {}
  /\ \/ \E upd \in BOOLEAN, e \in ForkErrnos, beh \in Behaviours :
          LET Go == [fail \in Calls, onUB \in UBs, honor \in BOOLEAN |->
                QueueCloneRequest(Top(fail, onUB, "queue"), Lowest(FreeIds),
                                  upd, e, FALSE, Wild, beh)]
          IN Branch(Go)
     \/ \E upd \in BOOLEAN :
          Commit(QueueCloneRequest(Top("none", "go", "queue"),
                                   Lowest(FreeIds), upd, 0, TRUE, Wild, "ok"))
     \/ \E upd \in BOOLEAN,
           child \in {Wild} \cup {w \in Ids : watch[w] = "registered"} :
          Commit(QueueCloneRequest(Top("none", "go", "queue"),
                                   Lowest(FreeIds), upd, 0, FALSE, child,
                                   "ok"))

CallCancelAll ==
  /\ CallerRuns
  /\ LET Go == [fail \in Calls, onUB \in UBs, honor \in BOOLEAN |->
           CancelAll(Top(fail, onUB,
                         IF active_requests_ = {} /\ ~event_.exit_requested
                         THEN "idle cancelall" ELSE "cancelall"))]
     IN Branch(Go)

WaitEnter ==
  /\ CallerRuns
  /\ Commit(WaitLoop([Top("none", "go", "wait") EXCEPT
                        !.waitAfter =
                          IF lastCall \in {"cancelall", "idle cancelall"}
                          THEN lastCall ELSE "other"]))

\* sd_event_run with an exit requested: the loop finishes without
\* dispatching; sd_event_run on a finished loop fails with -ESTALE.
RunExit ==
  /\ LoopRuns
  /\ \/ /\ event_.finished
        /\ Commit(WaitBreak(Serviced(Cur("none", "go", FALSE))))
     \/ /\ ~event_.finished /\ event_.exit_requested
        /\ Commit(WaitLoop([Serviced(Cur("none", "go", FALSE))
                              EXCEPT !.event.finished = TRUE]))

\* sd_event_run fails
RunFails ==
  /\ Dispatching
  /\ Commit(WaitBreak(Serviced(Cur("none", "go", FALSE))))

\* sd_event_run dispatches the io source of socket sk: Aur::OnCurlIO.  The
\* transfer moves on or finishes with oc; order and beh are over the
\* transfers that can have a message queued.
RunIo ==
  /\ Dispatching
  /\ \E sk \in Ids :
       /\ active_io_[sk].present /\ active_io_[sk].enabled
       /\ \E oc \in {Progress} \cup IoOutcomes(sk) :
            \E order \in Orders(DoneIds \cup IF oc = Progress THEN {} ELSE {sk}),
               beh \in [DoneIds \cup IF oc = Progress THEN {} ELSE {sk}
                          -> Behaviours] :
              LET Go == [fail \in Calls, onUB \in UBs, honor \in BOOLEAN |->
                    WaitLoop(DisableIo(
                      AfterSocketAction(
                        OnCurlIO(Serviced(Cur(fail, onUB, honor)),
                                 active_io_[sk].fd, oc),
                        order, beh),
                      sk))]
              IN Branch(Go)

\* sd_event_run dispatches the one-shot timer: Aur::OnCurlTimer.  The
\* transfers of S run into their timeout.
RunTimer ==
  /\ Dispatching
  /\ timer_ = "oneshot"
  /\ \E S \in SUBSET {h \in Ids : easy[h] = "added"} :
       \E D \in [S -> UNION {TimerOutcomes(h) : h \in S}],
          order \in Orders(DoneIds \cup S),
          beh \in [DoneIds \cup S -> Behaviours] :
         /\ \A h \in S : D[h] \in TimerOutcomes(h)
         /\ LET Go == [fail \in Calls, onUB \in UBs, honor \in BOOLEAN |->
                  WaitLoop(DisableTimer(
                    AfterSocketAction(
                      SocketActionTimeout(
                        [Serviced(Cur(fail, onUB, honor))
                           EXCEPT !.timer = "off"],
                        D),
                      order, beh)))]
            IN Branch(Go)

\* sd_event_run dispatches the exit of a watched child: Aur::OnCloneExit
RunChild ==
  /\ Dispatching
  /\ \E h \in Ids :
       /\ watch[h] = "registered"
       /\ \E st \in ExitStatuses, beh \in Behaviours :
            LET Go == [fail \in Calls, onUB \in UBs, honor \in BOOLEAN |->
                  WaitLoop(OnCloneExit(
                    [Serviced(Cur(fail, onUB, honor))
                       EXCEPT !.exitStatus[h] = st], h, st, beh))]
            IN Branch(Go)

Next ==
  \/ QueueRpcRequest
  \/ QueueRawRequest
  \/ QueueTarballRequest
  \/ QueueClone
  \/ CallCancelAll
  \/ WaitEnter
  \/ RunExit
  \/ RunFails
  \/ RunIo
  \/ RunTimer
  \/ RunChild

Spec == Init /\ [][Next]_vars

\* Wait calls sd_event_run as long as the set has a member, and sd_event_run
\* acts on an exit that was requested and dispatches the exit of a watched
\* child.
FairSpec ==
  /\ Spec
  /\ WF_vars(RunExit)
  /\ WF_vars(RunChild)

(***************************************************************************)
(* The properties.                                                         *)
(***************************************************************************)
Allocated == {h \in Ids : kind[h] # "none"}
HandlersOf(r) == {h \in Allocated : reqOf[h] = r}

RECURSIVE SumCalls(_)
SumCalls(S) ==
  IF S = {} THEN 0
  ELSE calls[Lowest(S)] + SumCalls(S \ {Lowest(S)})

\* Invocations of the caller's callback for submitted request r.
CallsOf(r) == SumCalls(HandlersOf(r))

IdleEngine == active_requests_ = {} /\ ~event_.exit_requested

\* C1: for every submitted request, one URL or several, the callback is
\* invoked at most once, not at all when the request is cancelled, and no
\* handler is used (here: deleted again) after its callback has run.
C1_OneCallbackPerRequest ==
  /\ \A r \in 1..nreq : CallsOf(r) <= 1
  /\ \A h \in Ids : fate[h] = "cancelled" => calls[h] = 0
  /\ \A h \in Ids : calls[h] >= 1 => deletes[h] <= 1

\* C2: once any callback has returned a negative value, CancelAll has been
\* executed (the exit of the loop is requested), no callback ran after it,
\* and a Wait that has returned since returned a negative value.
C2_NegativeReturnCancelsAll ==
  negReturned =>
    /\ event_.exit_requested
    /\ ~cbAfterNeg
    /\ waitPc = "returned" => waitResult < 0

\* C3: every CancelAll that returns leaves the Active Request Set empty,
\* and a Wait issued right after CancelAll has returned at once, without
\* entering sd_event_run, with a negative code.
C3_CancelAllEmptiesAndStopsWait ==
  /\ ~caNonEmpty
  /\ lastCall \in {"cancelall", "idle cancelall"} =>
       active_requests_ = {} /\ event_.exit_requested
  /\ waitAfter \in {"cancelall", "idle cancelall"} =>
       waitPc = "returned" /\ ~waitServiced /\ waitResult < 0

\* C3 is exercised: a transfer and a child watch were cancelled together and
\* the Wait issued next has returned.
C3_Witness ==
  /\ waitAfter = "cancelall" /\ waitPc = "returned"
  /\ \E g, h \in Ids : /\ kind[g] = "curl" /\ fate[g] = "cancelled"
                       /\ kind[h] = "child" /\ fate[h] = "cancelled"

\* C4 as stated: CancelAll on an idle engine (empty set, no cancellation so
\* far) changes no engine state, and the Wait issued next returns 0.
C4_IdleCancelAllIsNoOp ==
  [][/\ (CallCancelAll /\ IdleEngine) => UNCHANGED << active_requests_, event_ >>
     /\ (WaitEnter /\ lastCall = "idle cancelall") => waitResult' = 0]_vars

\* C4 amended: CancelAll on an idle engine touches no request (the set stays
\* empty, no callback runs, no handler is destroyed) but requests the exit
\* of the loop with code 1; the Wait issued next returns -1 at once, and so
\* does every later Wait, whatever is queued in between.
C4_IdleCancelAllRequestsExit ==
  [][/\ (CallCancelAll /\ IdleEngine) =>
          /\ active_requests_' = {}
          /\ calls' = calls /\ deletes' = deletes /\ handler' = handler
          /\ event_'.exit_requested /\ event_'.exit_code = 1
     /\ (WaitEnter /\ lastCall = "idle cancelall") =>
          waitPc' = "returned" /\ ~waitServiced' /\ waitResult' = -1
     /\ (event_.exit_requested /\ waitPc' = "returned") => waitResult' = -1]_vars

\* C4 is exercised: the Wait issued after a CancelAll on an idle engine has
\* returned -1.
C4_Witness ==
  waitAfter = "idle cancelall" /\ waitPc = "returned" /\ waitResult = -1

\* C5: a Wait that returns 0 leaves the Active Request Set empty, left its
\* loop on no failed sd_event_run, and no request was cancelled or lost; a
\* Wait that left its loop on a failed sd_event_run returns a negative value.
C5_WaitZeroOnlyOnCleanDrain ==
  waitPc = "returned" =>
    /\ waitResult = 0 =>
         /\ active_requests_ = {}
         /\ \A h \in Ids : fate[h] \notin {"cancelled", "lost"}
    /\ waitBroke => waitResult < 0

\* C6: once a reactor registration has failed, a Wait that has returned
\* returned a negative value, and a Wait still in its loop has the exit of
\* the loop requested.
C6_RegistrationFailureSurfaces ==
  regFailed =>
    /\ waitPc = "returned" => waitResult < 0
    /\ waitPc = "loop" => event_.exit_requested

\* C7: no handler is destroyed twice, and the handler of a request that has
\* left the Active Request Set, completed or cancelled, is destroyed.
C7_HandlerDestroyedExactlyOnce ==
  \A h \in Ids :
    /\ deletes[h] <= 1
    /\ (fate[h] \in {"completed", "cancelled"} /\ h \notin active_requests_)
         => handler[h] = "freed"

\* C8: a clone request whose fork failed had its callback invoked, once,
\* within QueueCloneRequest, with a negative status and a non-empty error;
\* it has no watch and is not in the Active Request Set; on an engine
\* holding only such requests Wait never enters its loop.
C8_ForkFailureSynchronous ==
  /\ \A h \in Ids :
       forkErrno[h] # 0 =>
         /\ calls[h] = 1
         /\ cbStatus[h] < 0
         /\ cbError[h] # Empty
         /\ watch[h] = "none"
         /\ h \notin active_requests_
  /\ (\A h \in Allocated : forkErrno[h] # 0) =>
       active_requests_ = {} /\ waitPc # "loop" /\ ~waitServiced

\* C8 is exercised: the only request of the engine is a clone whose fork
\* failed, and Wait has returned.
C8_Witness ==
  \E h \in Ids :
    Allocated = {h} /\ forkErrno[h] # 0 /\ waitPc = "returned"

\* C9: a child that exited with status N had its callback invoked with
\* status N, with an error that contains N when N # 0 and the empty error
\* when N = 0, after the watch was released and removed from the set.
C9_CloneExitStatus ==
  \A h \in Ids :
    exitStatus[h] >= 0 =>
      /\ calls[h] = 1
      /\ cbStatus[h] = exitStatus[h]
      /\ exitStatus[h] # 0 => Contains(cbError[h], ToString(exitStatus[h]))
      /\ exitStatus[h] = 0 => cbError[h] = Empty
      /\ ~cbInSet[h]
      /\ cbWatch[h] = "released"

\* C9 is exercised: one child exited with 0 and another with 127.
C9_Witness ==
  \E g, h \in Ids :
    /\ exitStatus[g] = 0 /\ calls[g] = 1
    /\ exitStatus[h] = 127 /\ calls[h] = 1

\* C10: the error a finished transfer's callback received is empty exactly
\* when the transport result is CURLE_OK, whatever the HTTP status; it is
\* the transfer's own error buffer when that is non-empty and the generic
\* message of the result otherwise; the status is the transfer's own.
C10_TransferErrorString ==
  \A h \in Ids :
    (kind[h] = "curl" /\ calls[h] >= 1) =>
      /\ cbError[h] = Empty <=> outcome[h].result = CURLE_OK
      /\ outcome[h].result # CURLE_OK =>
           cbError[h] = IF outcome[h].errbuf # Empty THEN outcome[h].errbuf
                        ELSE StrError(outcome[h].result)
      /\ cbError[h] \in {Empty, ErrBufText(h), StrError(outcome[h].result)}
      /\ cbStatus[h] = outcome[h].code

\* C10 is exercised: of two transfers one ended with a 404 and a filled
\* error buffer over a sound transport, the other with a transport error
\* and an empty buffer.
C10_Witness ==
  \E g, h \in Ids :
    /\ kind[g] = "curl" /\ calls[g] = 1
    /\ outcome[g].result = CURLE_OK /\ outcome[g].code = 404
    /\ outcome[g].errbuf # Empty
    /\ kind[h] = "curl" /\ calls[h] = 1
    /\ outcome[h].result # CURLE_OK /\ outcome[h].errbuf = Empty

\* C11: every Cancel that returns removed exactly its member from the Active
\* Request Set, invoked no callback and left the other members, their
\* handlers, transfers, watches and io sources as they were; a cancelled
\* transfer is out of the multiplexer with its handle cleaned up and its
\* handler destroyed, its callback never invoked; a cancelled watch is
\* released and its child has not been made to exit.
C11_CancelRemovesOnlyItsMember ==
  /\ ~cancelBad
  /\ \A h \in Ids :
       fate[h] = "cancelled" =>
         /\ calls[h] = 0
         /\ h \notin active_requests_
         /\ kind[h] = "curl" =>
              easy[h] = "cleaned" /\ cleanups[h] = 1 /\ handler[h] = "freed"
         /\ kind[h] = "child" =>
              watch[h] = "released" /\ exitStatus[h] = -1

\* C11 is exercised: the two transfers of one request were cancelled, the
\* first while the second was still a member.
C11_Witness ==
  \E g, h \in Ids :
    /\ g # h /\ reqOf[g] = reqOf[h]
    /\ kind[g] = "curl" /\ fate[g] = "cancelled"
    /\ kind[h] = "curl" /\ fate[h] = "cancelled"

\* C12: for every clone request the working copy found at submission decides
\* both outputs: with a working copy the child executes git -C <path> pull
\* --quiet --ff-only and the callback's response is "update", without one
\* it executes git clone --quiet <url> and the response is "clone"; a child
\* is given its vector whenever the fork succeeded, and the label and the
\* vector never disagree.
C12_CloneLabelMatchesArgv ==
  \A h \in Ids :
    kind[h] = "child" =>
      /\ forkErrno[h] = 0 =>
           cmd[h] = IF update[h]
                    THEN <<"git", "-C", "reponame", "pull", "--quiet",
                           "--ff-only">>
                    ELSE <<"git", "clone", "--quiet", "url">>
      /\ forkErrno[h] # 0 => cmd[h] = << >>
      /\ calls[h] >= 1 =>
           cbResponse[h] = IF update[h] THEN "update" ELSE "clone"
      /\ (calls[h] >= 1 /\ cmd[h] # << >>) =>
           /\ cbResponse[h] = "update" <=>
                Contains(cmd[h], <<"pull", "--quiet", "--ff-only">>)
           /\ cbResponse[h] = "clone" <=>
                Contains(cmd[h], <<"clone", "--quiet", "url">>)

\* C12 is exercised: one child pulled and one cloned, both exited, and both
\* callbacks have run.
C12_Witness ==
  \E g, h \in Ids :
    /\ kind[g] = "child" /\ update[g] /\ exitStatus[g] = 0 /\ calls[g] = 1
    /\ kind[h] = "child" /\ ~update[h] /\ exitStatus[h] = 0 /\ calls[h] = 1

\* C13: a CURL_POLL_REMOVE for a registered descriptor returns with the
\* registration gone from the registration map, its entry gone from the
\* Translate-FD Table and the duplicate closed, and nothing is applied to
\* the io source after it was released.
C13_RemoveReleasesRegistration == ~rmResidue /\ ~usedReleasedIo

\* C14: a CURL_POLL_REMOVE for a descriptor without a registration changes
\* nothing: no descriptor is duplicated, no io source registered, and the
\* registration map and the Translate-FD Table stay as they were.
C14_RemoveUnregisteredIsNoOp == ~rmUnregChanged

\* C15: the Translate-FD Table and the registration map correspond one to
\* one: a registered socket has one open duplicate, and the one table entry
\* that names the socket is the entry of that duplicate; every table entry
\* belongs to an open duplicate of a registered socket (so none is left for
\* a closed duplicate, a modify adds none, and OnCurlIO's lookup inserts
\* none, which would hold the socket 0).
C15_TranslateTableMatchesRegistrations ==
  /\ \A sk \in Ids :
       active_io_[sk].present =>
         /\ active_io_[sk].fd \in openFds
         /\ translate_fds_[active_io_[sk].fd] = sk
         /\ Cardinality({f \in Fds : translate_fds_[f] = sk}) = 1
  /\ \A f \in Fds :
       translate_fds_[f] # -1 =>
         /\ f \in openFds
         /\ translate_fds_[f] \in Ids
         /\ active_io_[translate_fds_[f]].present
         /\ active_io_[translate_fds_[f]].fd = f

\* C15 is exercised: with no registration failure so far, one transfer's
\* socket was registered, its io event dispatched and the socket removed
\* when the transfer ended with a 200, while the socket of another transfer
\* is registered and was modified to wait for input.
C15_Witness ==
  \E g, h \in Ids :
    /\ ~regFailed
    /\ active_io_[g].present /\ active_io_[g].events = {"EPOLLIN"}
    /\ easy[h] = "cleaned" /\ outcome[h].code = 200 /\ calls[h] = 1
    /\ ~active_io_[h].present

\* C16: the engine never has more than one timer registration, and timer_
\* is null exactly while there is none; every TimerCallback that returns 0
\* for a negative value leaves the timer disabled, creating none when none
\* existed, and for a non-negative value leaves the one timer armed
\* one-shot with the deadline computed from that value, whatever state the
\* timer was in.
C16_OneTimerArmedAsAsked ==
  /\ ~timerBad
  /\ timerSources <= 1
  /\ timer_ = "null" <=> timerSources = 0
  /\ timer_ = "oneshot" => timerUsec >= 0

\* C16 is exercised: the timer fired, one transfer ran into its timeout and
\* its callback ran, and the timer was armed again, with libcurl's next
\* timeout, for a transfer still in flight.
C16_Witness ==
  \E g, h \in Ids :
    /\ outcome[g].result = 28 /\ calls[g] = 1
    /\ easy[h] = "added"
    /\ timer_ = "oneshot" /\ timerUsec = 5000 /\ timerSources = 1

\* C17: every member of the Active Request Set is a transfer held by the
\* multi handle or a registered child watch, with a live Response Handler;
\* and every transfer the multi handle holds and every registered watch is
\* a member (a member leaves the set in the step that releases it).
C17_MembersAreLiveHandles ==
  /\ \A m \in active_requests_ :
       /\ m \in Ids
       /\ handler[m] = "live"
       /\ \/ kind[m] = "curl" /\ easy[m] \in {"added", "done"}
          \/ kind[m] = "child" /\ watch[m] = "registered"
  /\ \A h \in Ids :
       (easy[h] \in {"added", "done"} \/ watch[h] = "registered") =>
         h \in active_requests_

\* A timer or socket event the loop can dispatch.
EventPending ==
  \/ timer_ = "oneshot"
  \/ \E sk \in Ids : active_io_[sk].present /\ active_io_[sk].enabled

\* C18: take a run in which no callback returns a negative value, CancelAll
\* is never called (no exit is requested), the process does not die and
\* sd_event_run does not fail; in which every transfer in flight finishes
\* and every watched child exits; and in which Wait's loop leaves no timer
\* or socket event pending for ever.  In it every Wait returns, and when it
\* has returned the Active Request Set is empty, the callback of every
\* handler has been invoked, and the value returned is 0.
C18_WaitDrainsAndReturnsZero ==
  ( /\ [](~negReturned /\ ~event_.exit_requested /\ ~crashed /\ ~waitBroke)
    /\ \A h \in Ids : []<>(easy[h] # "added")
    /\ \A h \in Ids : []<>(watch[h] # "registered")
    /\ []<>(~(waitPc = "loop" /\ EventPending)) )
  => ( /\ []<>(waitPc # "loop")
       /\ [](waitPc = "returned" =>
              /\ active_requests_ = {}
              /\ waitResult = 0
              /\ \A h \in Allocated : calls[h] >= 1) )

\* C19: when a completion callback was invoked its request was no longer a
\* member of the Active Request Set, so that nothing the callback does, a
\* CancelAll included, destroys its handler or cleans its transfer up a
\* second time.
C19_CompletingRequestOutOfReach ==
  \A h \in Ids :
    calls[h] >= 1 => ~cbInSet[h] /\ deletes[h] <= 1 /\ cleanups[h] <= 1

\* C20: a SocketCallback that returns -1 leaves the registration map, the
\* Translate-FD Table and the engine's open duplicates as they were when it
\* was called, and no duplicate is open without an entry in the table.
C20_FailedSocketCallbackLeavesNoResidue ==
  /\ ~sockFailChanged
  /\ \A fd \in openFds : translate_fds_[fd] # -1

====
